---- MODULE Spec2Model ----
(***************************************************************************)
(* Whisper subtitle editor: the segment timeline, the SRT merge, the       *)
(* completion scan / resume planner, the manual-window reconciliation and  *)
(* the foreground / worker protocol, as a state machine.                   *)
(*                                                                         *)
(* Times are whole milliseconds.  An f64 number of seconds is represented  *)
(* by the millisecond count it stands for; the places where binary64       *)
(* rounding changes a result of the program are tabulated: the millisecond *)
(* field of format_srt_time in F64MillisBelow and F64FractionBelow, the    *)
(* sum of parse_time_string in F64SumBelow.                                *)
(* Paths: the media has one stem, so a segment file "<stem>_00i.mp3" is    *)
(* the number i, and its companion "<stem>_00i.srt" is fragments[i].       *)
(***************************************************************************)
EXTENDS Integers, Sequences, FiniteSets, TLC

VARIABLES
    \* ---- WhisperApp fields (foreground thread) ----
    state,              \* AppState
    video_path,         \* Option<PathBuf>: None or a media name
    audio_path,         \* Option<PathBuf>: None or a media name
    srt_path,           \* Option<PathBuf>: None or the media whose .srt it is
    cut_points,         \* Vec<f64>
    audio_segments,     \* Vec<PathBuf>
    recognition_mode,   \* RecognitionMode
    manual_segment,     \* Option<PathBuf>: NoSegment or the window it was cut with
    manual_start_time,  \* String: its components, split at ':'
    manual_end_time,    \* String
    can_resume,
    missing_segments,
    completed_segments,
    subtitles,          \* Vec<subtitle::SubtitleEntry>
    progress_receiver,  \* Option<Receiver>: 0 (None) or the run that holds the sender
    total_duration,     \* f64: duration of the loaded audio
    crashed,            \* the foreground thread panicked
    \* ---- channel and worker threads ----
    queue,              \* messages sent to the live receiver and not yet received
    workers,            \* run id -> the worker thread's locals and position
    \* ---- files ----
    fragments,          \* segment path -> content of its .srt, or NoFile
    manual_srt,         \* content of the manual segment's .srt, or NoFile
    global_srt,         \* media name -> content of <media>.srt, or NoFile
    ws_file,            \* content of workspace_state.json, or NoWorkspace
    \* ---- observation ----
    last,               \* the step just taken and what it did
    ops,                \* foreground operations performed so far
    \* ---- merge_srt_files called on its own ----
    m_files, m_cut_points, m_result,
    m_output,           \* the file at output_path
    m_history,          \* the content of output_path after each call that returned Ok
    \* ---- the subtitle track operations called on their own ----
    t_track,            \* Vec<subtitle::SubtitleEntry>
    t_last,             \* the operation just applied and its arguments
    t_steps,            \* operations applied so far
    \* ---- the parsers and formatters called on their own ----
    p_in,               \* the argument of the call
    p_out,              \* what the call returned
    p_op                \* the function called, "none" before the call

vars == <<state, video_path, audio_path, srt_path, cut_points, audio_segments,
          recognition_mode, manual_segment, manual_start_time, manual_end_time,
          can_resume, missing_segments, completed_segments, subtitles,
          progress_receiver, crashed, queue, workers, fragments, manual_srt,
          global_srt, ws_file, last, ops, total_duration, m_files, m_cut_points,
          m_result, m_output, m_history, t_track, t_last, t_steps,
          p_in, p_out, p_op>>

appVars == <<state, video_path, audio_path, srt_path, cut_points, audio_segments,
             recognition_mode, manual_segment, manual_start_time, manual_end_time,
             can_resume, missing_segments, completed_segments, subtitles,
             progress_receiver, crashed, total_duration>>

sessionVars == <<appVars, queue, workers, fragments, manual_srt, global_srt,
                 ws_file, last, ops>>

mergeVars == <<m_files, m_cut_points, m_result, m_output, m_history>>

trackVars == <<t_track, t_last, t_steps>>

callVars == <<p_in, p_out, p_op>>

pureVars == <<mergeVars, trackVars, callVars>>

None == "None"
\* A path on disk: absent, or a file with its content.
NoFile == [exists |-> FALSE, content |-> <<>>]
File(c) == [exists |-> TRUE, content |-> c]
\* Option<PathBuf> of the manual segment: None.
NoSegment == <<>>
\* The result of a call to the ASR engine or the VAD script.
Failure == [ok |-> FALSE, content |-> <<>>]
Success(c) == [ok |-> TRUE, content |-> c]

\* ---------------------------------------------------------------- bounds
MaxRuns == 2            \* recognition runs started in one session
MaxOps == 4             \* foreground operations in one session
MaxFiles == 3           \* fragments handed to one merge_srt_files call
MaxMergeCalls == 2      \* calls of merge_srt_files over the same inputs
MaxTrackLen == 2        \* entries of a track loaded from a file
MaxTrackOps == 2        \* operations applied to one track

\* ------------------------------------------------------------ time codec
\* Values of the model's time domain at which ((t/1000.0) % 1.0) * 1000.0,
\* evaluated in binary64, is below t % 1000: floor() then yields one
\* millisecond less.  t/1000.0 is the sum parse_srt_time(local) + offset for
\* local in LocalTimes and offset in {0, 10.0, 25.0}; every other value of
\* that domain is exact.
F64MillisBelow == {1001, 11001}

\* An "HH:MM:SS,mmm" string as <<HH, MM, SS, mmm>>.
ParseSrtTime(ts) == ts[1] * 3600000 + ts[2] * 60000 + ts[3] * 1000 + ts[4]

FormatSrtTime(t) ==
    LET hours == t \div 3600000
        minutes == (t % 3600000) \div 60000
        secs == (t % 60000) \div 1000
        millis == IF t \in F64MillisBelow THEN (t % 1000) - 1 ELSE t % 1000
    IN <<hours, minutes, secs, millis>>

\* The timestamp text the ASR engine writes for a time t (exact).
Stamp(t) == <<t \div 3600000, (t % 3600000) \div 60000, (t % 60000) \div 1000, t % 1000>>

\* ---- timestamp texts, component by component (subtitle.rs, srt_merger.rs)
\* A text is its components, as split at every ':' and ',', and the
\* separators between them.  A component is the number its characters parse
\* to under str::parse::<f64> (leading zeros and a sign are accepted), or a
\* component that does not parse (letters, or nothing at all).
Num(v) == [num |-> TRUE, value |-> v]

Word == [num |-> FALSE, value |-> 0]

TimeText(parts, seps) == [parts |-> parts, seps |-> seps]

Ok(v) == [ok |-> TRUE, value |-> v]

Err == [ok |-> FALSE, value |-> 0]

\* ---- time strings of the manual panel (manual_cut.rs)
\* A time string is its components as split at every ':'; a numeric
\* component holds its number in thousandths ("1" is 1000, "1.029" is 1029,
\* "-5" is -5000).
\* A text field that parse_time_string rejects (the empty string, "abc").
Bad == <<Word>>

\* <<hours, minutes, seconds>> for which hours * 3600.0 + minutes * 60.0 +
\* seconds, evaluated in binary64, is the double just below the one nearest
\* to the exact sum: 1.0 * 60.0 + 1.029 is 61.028999999999996.  Every other
\* sum over TimeStrings is the nearest double.
F64SumBelow == {<<0, 1000, 1029>>}

\* Ok(seconds): the sum, in thousandths as its terms are (milliseconds),
\* and how many units in the last place the f64 lies from the double
\* nearest to it.
parse_time_string(time_str) ==
    LET parts == time_str
        n == Len(parts)
    IN IF n \notin 1..3 THEN [ok |-> FALSE, value |-> 0, ulps |-> 0]
       ELSE IF \E k \in 1..n : ~parts[k].num THEN [ok |-> FALSE, value |-> 0, ulps |-> 0]
       ELSE LET hours == IF n = 3 THEN parts[1].value ELSE 0
                minutes == IF n >= 2 THEN parts[n - 1].value ELSE 0
                seconds == parts[n].value
            IN [ok |-> TRUE,
                value |-> hours * 3600 + minutes * 60 + seconds,
                ulps |-> IF <<hours, minutes, seconds>> \in F64SumBelow THEN -1 ELSE 0]

\* The times the codec is called on: the three times of the unit tests, the
\* two ends of the range of an SRT timestamp and every millisecond of a
\* stretch around one second.
CodecTimes == (985..1130) \cup {0, 5650, 600378, 5445123, 359999999}

\* Times t of CodecTimes for which ((t/1000.0) % 1.0) * 1000.0, evaluated in
\* binary64 on the double nearest to t/1000, is below t % 1000, so that
\* floor() yields one millisecond less (1.001 % 1.0 is 0.000999999999999889).
F64FractionBelow ==
    {t \in 1001..1115 : t % 2 = 1} \cup {1126, 1128, 1130, 5445123}

format_srt_time(t) ==
    LET hours == t \div 3600000
        minutes == (t % 3600000) \div 60000
        secs == (t % 60000) \div 1000
        millis == IF t \in F64FractionBelow THEN (t % 1000) - 1 ELSE t % 1000
    IN TimeText(<<Num(hours), Num(minutes), Num(secs), Num(millis)>>, <<":", ":", ",">>)

\* split(&[':', ',']): the separators are not told apart.
parse_srt_time(time_str) ==
    LET parts == time_str.parts
    IN IF Len(parts) # 4 THEN Err
       ELSE IF \E k \in 1..4 : ~parts[k].num THEN Err
       ELSE Ok(parts[1].value * 3600000 + parts[2].value * 60000
               + parts[3].value * 1000 + parts[4].value)

\* srt_merger.rs: split(',') must give two parts and the first of them,
\* split(':'), three; a ':' after the ',' leaves a part that is no number.
merger_parse_srt_time(time_str) ==
    LET parts == time_str.parts
        seps == time_str.seps
        commas == {k \in 1..Len(seps) : seps[k] = ","}
    IN IF Cardinality(commas) # 1 THEN Err
       ELSE IF commas # {3} \/ Len(parts) # 4 THEN Err
       ELSE IF \E k \in 1..4 : ~parts[k].num THEN Err
       ELSE Ok(ParseSrtTime(<<parts[1].value, parts[2].value, parts[3].value, parts[4].value>>))

\* ------------------------------------------------------- sequence helpers
Range(s) == {s[i] : i \in 1..Len(s)}

InsertAt(s, pos, e) == SubSeq(s, 1, pos - 1) \o <<e>> \o SubSeq(s, pos, Len(s))

RemoveAt(s, pos) == SubSeq(s, 1, pos - 1) \o SubSeq(s, pos + 1, Len(s))

RECURSIVE SortKeyed(_)
\* Stable sort of a sequence of <<key, element>> pairs by key: slice::sort_by
\* with partial_cmp on the keys (equal keys keep their order).
SortKeyed(s) ==
    IF Len(s) <= 1 THEN s
    ELSE LET front == SortKeyed(SubSeq(s, 1, Len(s) - 1))
             e == s[Len(s)]
             after == {i \in 1..Len(front) : front[i][1] > e[1]}
             pos == IF after = {} THEN Len(front) + 1
                    ELSE CHOOSE i \in after : \A j \in after : i <= j
         IN InsertAt(front, pos, e)

RECURSIVE Flatten(_)
Flatten(ss) == IF ss = <<>> THEN <<>> ELSE Head(ss) \o Flatten(Tail(ss))

\* ------------------------------------------------------------- SRT files
\* A well-formed SRT file is the sequence of its blocks; a block is
\* [index, start_time, end_time, text] with the two timestamps as text.
Block(i, s, e, txt) == [index |-> i, start_time |-> Stamp(s), end_time |-> Stamp(e), text |-> txt]

\* srt_merger::parse_srt_file on a file made of blocks: one entry per block that
\* has both timestamps, the timestamps kept as strings.
merger_parse_srt_file(content) ==
    SelectSeq(content, LAMBDA entry : entry.start_time # <<>> /\ entry.end_time # <<>>)

\* subtitle::parse_srt_content on a well-formed file: one SubtitleEntry per
\* block, the timestamps parsed to seconds.
parse_srt_content(content) ==
    [k \in 1..Len(content) |->
        [index |-> content[k].index,
         start_time |-> ParseSrtTime(content[k].start_time),
         end_time |-> ParseSrtTime(content[k].end_time),
         text |-> content[k].text]]

\* ---- SRT text of any shape, line by line (after trim)
\* A line is blank, parses as usize (an index line), contains one "-->"
\* between two timestamp texts (a time line), or is anything else (text).
EmptyText == TimeText(<<>>, <<>>)

BlankLine == [kind |-> "blank", index |-> 0, start |-> EmptyText, end |-> EmptyText]

IndexLine(index) == [kind |-> "index", index |-> index, start |-> EmptyText, end |-> EmptyText]

TimeLine(start, end) == [kind |-> "time", index |-> 0, start |-> start, end |-> end]

TextLine(id) == [kind |-> "text", index |-> id, start |-> EmptyText, end |-> EmptyText]

\* Where the text of an entry that starts at line k ends: the first blank
\* line at or after k, or the end of the input.
TextEnd(lines, k) ==
    CHOOSE j \in k..(Len(lines) + 1) :
        /\ j = Len(lines) + 1 \/ lines[j].kind = "blank"
        /\ \A m \in k..(j - 1) : lines[m].kind # "blank"

RECURSIVE parse_srt_lines(_, _, _)
\* subtitle::parse_srt_content from line i on (i counts from 1), subs
\* being the entries pushed so far.
parse_srt_lines(lines, i, subs) ==
    IF i > Len(lines) THEN [ok |-> TRUE, track |-> subs]
    ELSE IF lines[i].kind # "index" THEN parse_srt_lines(lines, i + 1, subs)
    ELSE IF i + 1 > Len(lines) THEN [ok |-> TRUE, track |-> subs]
    ELSE IF lines[i + 1].kind # "time" THEN parse_srt_lines(lines, i + 2, subs)
    ELSE LET start_time == parse_srt_time(lines[i + 1].start)
             end_time == parse_srt_time(lines[i + 1].end)
             stop == TextEnd(lines, i + 2)
         IN IF ~start_time.ok \/ ~end_time.ok THEN [ok |-> FALSE, track |-> <<>>]
            ELSE parse_srt_lines(lines, stop,
                    Append(subs,
                        [index |-> lines[i].index, start_time |-> start_time.value,
                         end_time |-> end_time.value,
                         text |-> SubSeq(lines, i + 2, stop - 1)]))

RECURSIVE merger_parse_srt_lines(_, _, _, _)
\* srt_merger::parse_srt_file from line i on; current_entry is <<>> for None
\* and <<entry>> for Some(entry); the timestamps are kept as texts.
merger_parse_srt_lines(lines, i, entries, current_entry) ==
    LET flushed == IF current_entry # <<>> /\ current_entry[1].start_time # EmptyText
                      /\ current_entry[1].end_time # EmptyText
                   THEN Append(entries, current_entry[1]) ELSE entries
    IN IF i > Len(lines) THEN flushed
       ELSE IF lines[i].kind = "blank"
       THEN merger_parse_srt_lines(lines, i + 1, flushed, <<>>)
       ELSE IF lines[i].kind = "index"
       THEN merger_parse_srt_lines(lines, i + 1, entries,
                <<[index |-> lines[i].index, start_time |-> EmptyText,
                   end_time |-> EmptyText, text |-> <<>>]>>)
       ELSE IF lines[i].kind = "time"
       THEN merger_parse_srt_lines(lines, i + 1, entries,
                IF current_entry # <<>> /\ lines[i].start # EmptyText /\ lines[i].end # EmptyText
                THEN <<[current_entry[1] EXCEPT !.start_time = lines[i].start,
                                                !.end_time = lines[i].end]>>
                ELSE current_entry)
       ELSE merger_parse_srt_lines(lines, i + 1, entries,
                IF current_entry # <<>> /\ current_entry[1].start_time # EmptyText
                THEN <<[current_entry[1] EXCEPT !.text = Append(@, lines[i])]>>
                ELSE current_entry)

\* The loop of merge_srt_files over one file: parse_srt_file, then
\* parse_srt_time(..)? on both timestamps of every entry.
merger_read_entries(lines) ==
    LET entries == merger_parse_srt_lines(lines, 1, <<>>, <<>>)
    IN IF \E k \in 1..Len(entries) :
            ~merger_parse_srt_time(entries[k].start_time).ok
            \/ ~merger_parse_srt_time(entries[k].end_time).ok
       THEN [ok |-> FALSE, track |-> <<>>]
       ELSE [ok |-> TRUE,
             track |-> [k \in 1..Len(entries) |->
                          [entries[k] EXCEPT
                             !.start_time = merger_parse_srt_time(@).value,
                             !.end_time = merger_parse_srt_time(@).value]]]

reindex_subtitles(subs) == [i \in 1..Len(subs) |-> [subs[i] EXCEPT !.index = i]]

sort_subtitles_by_time(subs) ==
    LET keyed == [i \in 1..Len(subs) |-> <<subs[i].start_time, subs[i]>>]
        sorted == SortKeyed(keyed)
    IN [i \in 1..Len(subs) |-> sorted[i][2]]

\* A retain test that looks at the start time only (what the code does not do).
RetainByStart(sub, start_time, end_time) ==
    sub.start_time < start_time \/ sub.start_time >= end_time

\* The closure of the retain call: the entry ends at or before the window's
\* start, or starts at or after its end.
RetainOutside(sub, start_time, end_time) ==
    sub.end_time <= start_time \/ sub.start_time >= end_time

\* The removal followed by a renumbering (what the code does not do here).
remove_and_reindex(subs, start_time, end_time) ==
    reindex_subtitles(SelectSeq(subs, LAMBDA sub : RetainOutside(sub, start_time, end_time)))

remove_subtitles_in_range(subs, start_time, end_time) ==
    SelectSeq(subs, LAMBDA sub : RetainOutside(sub, start_time, end_time))

insert_subtitle(subs, new_subtitle) ==
    LET after == {i \in 1..Len(subs) : subs[i].start_time > new_subtitle.start_time}
        insert_pos == IF after = {} THEN Len(subs) + 1
                      ELSE CHOOSE i \in after : \A j \in after : i <= j
    IN InsertAt(subs, insert_pos, new_subtitle)

RECURSIVE InsertEach(_, _)
InsertEach(subs, new_subtitles) ==
    IF new_subtitles = <<>> THEN subs
    ELSE InsertEach(insert_subtitle(subs, Head(new_subtitles)), Tail(new_subtitles))

insert_subtitles(subs, new_subtitles) ==
    reindex_subtitles(sort_subtitles_by_time(InsertEach(subs, new_subtitles)))

\* ----------------------------------------------------------- merge engine
segment_start_times(cps) == <<0>> \o cps

\* One fragment's entries with both timestamps parsed, shifted and formatted
\* again (srt_merger.rs:142-160).
ShiftEntries(entries, time_offset) ==
    [k \in 1..Len(entries) |->
        [entries[k] EXCEPT
            !.start_time = FormatSrtTime(ParseSrtTime(@) + time_offset),
            !.end_time = FormatSrtTime(ParseSrtTime(@) + time_offset)]]

SortByStartString(entries) ==
    LET keyed == [i \in 1..Len(entries) |-> <<ParseSrtTime(entries[i].start_time), entries[i]>>]
        sorted == SortKeyed(keyed)
    IN [i \in 1..Len(entries) |-> sorted[i][2]]

\* merge_srt_files(srt_files, cut_points, output_path): files is the content of
\* each path of srt_files (NoFile when the path does not exist).  The result is
\* "Ok" with the content written to output_path, "Err" (nothing written), or
\* "Panic" (segment_start_times[segment_idx] out of bounds, nothing written).
merge_srt_files(files, cps) ==
    LET sst == segment_start_times(cps)
        failing == {i \in 1..Len(files) : ~files[i].exists \/ i > Len(sst)}
        first == CHOOSE i \in failing : \A j \in failing : i <= j
        shifted == [i \in 1..Len(files) |->
                       ShiftEntries(merger_parse_srt_file(files[i].content), sst[i])]
    IN IF failing # {}
       THEN [status |-> IF ~files[first].exists THEN "Err" ELSE "Panic", track |-> <<>>]
       ELSE [status |-> "Ok",
             track |-> reindex_subtitles(SortByStartString(Flatten(shifted)))]

\* ------------------------------------------------- the session: its inputs
Media == {"m1"}

\* The duration the audio player reports for the media.
MediaDuration == 40250

\* Playback positions at which a cut point can be marked.
Positions == {10000, 25000}

\* Segment paths ffmpeg::cut_audio can produce from cut points in Positions.
SegmentPaths == 0..Cardinality(Positions)

\* What the ASR engine can write for a segment: two blocks, timestamps relative
\* to the segment's start, the text naming the segment it transcribes.
AsrOutputs(p) ==
    { <<Block(1, 1000, 2000, <<p, 1>>), Block(2, 3000, 4000, <<p, 2>>)>> }

\* What the ASR engine can write for the manually cut segment (text source -1).
ManualOutputs == { <<Block(1, 1000, 2000, <<-1, 1>>)>> }

\* What the VAD script can write for the whole audio (text source -2).
VadOutputs == { <<Block(1, 1000, 2000, <<-2, 1>>)>> }

\* Values the two manual time fields can be given: a string that
\* parse_time_string rejects, or a time.
ManualStarts == {Bad, <<Num(10000)>>}
ManualEnds == {Bad, <<Num(14000)>>}

\* ------------------------------------------------- workspace_state.json
\* An f64 of whole milliseconds as serde_json writes it, a decimal number:
\* <<integer part, the three fractional digits>>.
to_json_number(millis) == <<millis \div 1000, millis % 1000>>

\* A reader that keeps the integer part only (what the code does not do).
from_json_seconds(number) == number[1] * 1000

\* The f64 serde_json reads from such a decimal number.
from_json_number(number) == number[1] * 1000 + number[2]

\* serde_json::to_string_pretty over the derived Serialize: one member per
\* field, numbers in decimal; workspace_dir is written too, and load
\* overwrites it.
to_json(ws) ==
    [ws EXCEPT !.cut_points = [i \in 1..Len(ws.cut_points) |-> to_json_number(ws.cut_points[i])],
               !.total_duration = to_json_number(ws.total_duration)]

\* serde_json::from_str over the derived Deserialize.
from_json(json) ==
    [json EXCEPT !.cut_points = [i \in 1..Len(json.cut_points) |-> from_json_number(json.cut_points[i])],
                 !.total_duration = from_json_number(json.total_duration)]

\* The cut points an earlier session can have saved.
PreviousCutPoints == {<<10000>>, <<10000, 25000>>}

\* A workspace folder written by an earlier session over the same media: the
\* segments cut at cps, the manual window typed in but not cut; video_path is
\* an Option and may be null.
PreviousWorkspace(v, cps) ==
    to_json(
    [exists |-> TRUE,
     video_path |-> v, audio_path |-> "m1", cut_points |-> cps,
     audio_segments |-> [i \in 1..(Len(cps) + 1) |-> i - 1], completed_segments |-> <<0>>,
     manual_segment |-> NoSegment, manual_start_time |-> <<Num(10000)>>, manual_end_time |-> <<Num(14000)>>,
     total_duration |-> MediaDuration])

\* No workspace_state.json in the folder.
NoWorkspace ==
    [exists |-> FALSE,
     video_path |-> None, audio_path |-> None, cut_points |-> <<>>,
     audio_segments |-> <<>>, completed_segments |-> <<>>,
     manual_segment |-> NoSegment, manual_start_time |-> Bad, manual_end_time |-> Bad,
     total_duration |-> <<0, 0>>]

\* The fragments that earlier session left on disk.
PreviousFragmentSets == {{1}, {0, 1}}

PreviousFragments(present) ==
    [p \in SegmentPaths |->
        IF p \in present THEN File(<<Block(1, 1000, 2000, <<p, 1>>)>>) ELSE NoFile]

\* ------------------------------------------------------------ completion scan
Exists(frs, p) == frs[p].exists

\* The 0-based positions i of segs, ascending, whose companion .srt satisfies Want.
RECURSIVE ScanFrom(_, _, _, _)
ScanFrom(segs, frs, want, i) ==
    IF i >= Len(segs) THEN <<>>
    ELSE (IF Exists(frs, segs[i + 1]) = want THEN <<i>> ELSE <<>>)
         \o ScanFrom(segs, frs, want, i + 1)

\* A scan that offers the resume as soon as either list is non-empty (what the
\* code does not do).
check_missing_either(segs, frs) ==
    LET missing == ScanFrom(segs, frs, FALSE, 0)
        completed == ScanFrom(segs, frs, TRUE, 0)
    IN [missing_segments |-> missing,
        completed_segments |-> completed,
        can_resume |-> (segs # <<>>) /\ (missing # <<>> \/ completed # <<>>)]

\* check_missing_subtitles: [missing_segments, completed_segments, can_resume].
check_missing_subtitles(segs, frs) ==
    LET missing == ScanFrom(segs, frs, FALSE, 0)
        completed == ScanFrom(segs, frs, TRUE, 0)
    IN [missing_segments |-> missing,
        completed_segments |-> completed,
        can_resume |-> (segs # <<>>) /\ missing # <<>> /\ completed # <<>>]

\* ------------------------------------------------------------------ workers
\* The locals of a worker thread.  log, cancelled, on_disk_completed and
\* on_disk_missing (the number of segments whose fragment existed when a resume
\* started, and the indices of those whose fragment did not) are kept for
\* observation only.
IdleWorker ==
    [kind |-> "none", pc |-> "done", segments |-> <<>>, missing_indices |-> <<>>,
     all_segments |-> <<>>, cut_points |-> <<>>, video_path |-> None,
     completed_count |-> 0, idx |-> 0, srt_files |-> <<>>,
     mode |-> "Normal", start_time |-> 0, end_time |-> 0, subtitles |-> <<>>,
     raw_subs |-> <<>>, new_subs |-> <<>>, log |-> <<>>, cancelled |-> FALSE,
     on_disk_completed |-> 0, on_disk_missing |-> <<>>]

Running(w) == workers[w].pc = "running"

\* A worker thread can take a step: it has not ended, and the process is alive
\* (a panic of the foreground thread, which is the main thread, ends it).
CanStep(w) == Running(w) /\ ~crashed

\* tx.send(msg) by run w: delivered while the foreground still holds this run's
\* receiver, otherwise the send fails and the failure is ignored.
Sent(w, msgs) == IF progress_receiver = w THEN queue \o msgs ELSE queue

Msg(type, a, b) == [type |-> type, a |-> a, b |-> b]

Completed == Msg("Completed", 0, 0)

Files(paths, frs) == [i \in 1..Len(paths) |-> frs[paths[i]]]

ExistingSrtFiles(segs, frs) == SelectSeq(segs, LAMBDA p : Exists(frs, p))

\* The segments a resume hands to its worker: missing_segments mapped through
\* audio_segments.get(i), indices past the end dropped (filter_map).
RECURSIVE ResumeSegments(_, _)
ResumeSegments(missing, segs) ==
    IF missing = <<>> THEN <<>>
    ELSE (IF Head(missing) < Len(segs) THEN <<segs[Head(missing) + 1]>> ELSE <<>>)
         \o ResumeSegments(Tail(missing), segs)

\* The srt_files a batch worker hands to merge_srt_files once its loop is over.
MergeInput(wk, frs) ==
    IF wk.kind = "full" THEN wk.srt_files ELSE ExistingSrtFiles(wk.all_segments, frs)

\* The messages one iteration of the batch loop sends after its ASR call.
recognize_messages(ok, segment_index, current, total) ==
    IF ok THEN <<Msg("Result", segment_index + 1, 0), Msg("Progress", current, total)>>
    ELSE <<Msg("Error", segment_index + 1, 0)>>

\* One iteration of the worker loop of start_normal_recognition or
\* resume_recognition: the ASR call on the next segment and the messages sent.
WorkerRecognize(w) ==
    /\ w \in 1..Len(workers)
    /\ CanStep(w)
    /\ workers[w].kind \in {"full", "resume"}
    /\ workers[w].idx < Len(workers[w].segments)
    /\ LET wk == workers[w]
           path == wk.segments[wk.idx + 1]
           segment_index == IF wk.kind = "full" THEN wk.idx ELSE wk.missing_indices[wk.idx + 1]
           total == IF wk.kind = "full" THEN Len(wk.segments) ELSE Len(wk.all_segments)
           current == IF wk.kind = "full" THEN wk.idx + 1 ELSE wk.completed_count + wk.idx + 1
       IN \E out \in {Failure} \cup {Success(c) : c \in AsrOutputs(path)} :
            LET msgs == recognize_messages(out.ok, segment_index, current, total)
            IN /\ fragments' = IF ~out.ok THEN fragments
                               ELSE [fragments EXCEPT ![path] = File(out.content)]
               /\ workers' = [workers EXCEPT ![w] =
                     [wk EXCEPT !.idx = @ + 1,
                                !.srt_files = IF out.ok /\ wk.kind = "full"
                                              THEN Append(@, path) ELSE @,
                                !.log = @ \o msgs]]
               /\ queue' = Sent(w, msgs)
               /\ last' = [op |-> "Recognize", run |-> w, kind |-> wk.kind,
                           path |-> path, segment_index |-> segment_index,
                           existed |-> Exists(fragments, path), ok |-> out.ok]
    /\ UNCHANGED <<appVars, manual_srt, global_srt, ws_file, ops, pureVars>>

\* The end of a batch worker: the merge into <video>.srt and the Completed
\* message; a panic inside merge_srt_files ends the thread before Completed.
WorkerFinish(w) ==
    /\ w \in 1..Len(workers)
    /\ CanStep(w)
    /\ workers[w].kind \in {"full", "resume"}
    /\ workers[w].idx = Len(workers[w].segments)
    /\ LET wk == workers[w]
           srt_files == MergeInput(wk, fragments)
           res == IF srt_files = <<>> THEN [status |-> "Skipped", track |-> <<>>]
                  ELSE merge_srt_files(Files(srt_files, fragments), wk.cut_points)
           msgs == (IF res.status = "Err" /\ wk.kind = "full"
                    THEN <<Msg("Error", 0, 0)>> ELSE <<>>) \o <<Completed>>
       IN /\ global_srt' = IF res.status = "Ok"
                           THEN [global_srt EXCEPT ![wk.video_path] = File(res.track)]
                           ELSE global_srt
          /\ IF res.status = "Panic"
             THEN /\ workers' = [workers EXCEPT ![w] = [wk EXCEPT !.pc = "panicked"]]
                  /\ queue' = queue
             ELSE /\ workers' = [workers EXCEPT ![w] =
                        [wk EXCEPT !.pc = "done", !.log = @ \o msgs]]
                  /\ queue' = Sent(w, msgs)
          /\ last' = [op |-> "Finish", run |-> w, kind |-> wk.kind,
                      merge |-> res.status, srt_files |-> srt_files]
    /\ UNCHANGED <<appVars, fragments, manual_srt, ws_file, ops, pureVars>>

\* The worker of start_vad_recognition: the VAD script over the whole audio
\* writes <audio>.srt, which is <video>.srt (same stem).
WorkerVad(w) ==
    /\ w \in 1..Len(workers)
    /\ CanStep(w)
    /\ workers[w].kind = "vad"
    /\ LET wk == workers[w]
       IN \E out \in {Failure} \cup {Success(c) : c \in VadOutputs} :
            LET msgs == <<IF ~out.ok THEN Msg("Error", 0, 0)
                          ELSE Msg("RealtimeOutput", 0, 0), Completed>>
            IN /\ global_srt' = IF ~out.ok THEN global_srt
                                ELSE [global_srt EXCEPT ![wk.video_path] = File(out.content)]
               /\ workers' = [workers EXCEPT ![w] =
                     [wk EXCEPT !.pc = "done", !.log = @ \o msgs]]
               /\ queue' = Sent(w, msgs)
               /\ last' = [op |-> "Vad", run |-> w, ok |-> out.ok]
    /\ UNCHANGED <<appVars, fragments, manual_srt, ws_file, ops, pureVars>>

\* recognize_segment_with_vad: the parsed fragment shifted by start_time.
shift_by_start_time(subs, start_time) ==
    [k \in 1..Len(subs) |->
        [subs[k] EXCEPT !.start_time = @ + start_time, !.end_time = @ + start_time]]

\* new_subs of the worker of recognize_manual_segment, from the parsed fragment.
manual_new_subs(mode, raw, start_time) ==
    IF mode = "VAD" THEN shift_by_start_time(raw, start_time) ELSE raw

\* The reconciliation of recognize_manual_segment: if there are new entries,
\* the window is cleared and they are inserted.
reconcile(subs, start_time, end_time, new_subs) ==
    IF new_subs # <<>>
    THEN insert_subtitles(remove_subtitles_in_range(subs, start_time, end_time), new_subs)
    ELSE subs

\* The worker of recognize_manual_segment: the ASR call on the manual segment,
\* the reconciliation on the worker's own copy of the track, Completed.
WorkerManual(w) ==
    /\ w \in 1..Len(workers)
    /\ CanStep(w)
    /\ workers[w].kind = "manual"
    /\ LET wk == workers[w]
       IN \E out \in {Failure} \cup {Success(c) : c \in ManualOutputs} :
            LET raw == IF ~out.ok THEN <<>> ELSE parse_srt_content(out.content)
                new_subs == manual_new_subs(wk.mode, raw, wk.start_time)
                updated == reconcile(wk.subtitles, wk.start_time, wk.end_time, new_subs)
                msgs == (IF ~out.ok THEN <<Msg("Error", 0, 0)>> ELSE <<>>)
                        \o (IF new_subs # <<>> THEN <<Msg("RealtimeOutput", 0, 0)>> ELSE <<>>)
                        \o <<Completed>>
            IN /\ manual_srt' = IF ~out.ok THEN manual_srt ELSE File(out.content)
               /\ workers' = [workers EXCEPT ![w] =
                     [wk EXCEPT !.pc = "done", !.raw_subs = raw, !.new_subs = new_subs,
                                !.subtitles = updated, !.log = @ \o msgs]]
               /\ queue' = Sent(w, msgs)
               /\ last' = [op |-> "Manual", run |-> w, ok |-> out.ok]
    /\ UNCHANGED <<appVars, fragments, global_srt, ws_file, ops, pureVars>>

\* --------------------------------------------------------------- foreground
\* A click, drop or edit: the foreground thread is alive and the session has
\* operations left.
Foreground == ~crashed /\ ops < MaxOps

NewWorker(w) == Append(workers, w)

\* handle_dropped_file: an audio file, or a video whose audio extraction fails
\* (a video whose extraction works leaves the same fields as an audio file).
DropFile(kind) ==
    /\ Foreground
    /\ \E m \in Media :
        /\ video_path' = m
        /\ audio_path' = IF kind = "video_fail" THEN None ELSE m
    /\ state' = IF kind = "video_fail" THEN "Idle" ELSE "AudioExtracted"
    /\ cut_points' = <<>>
    /\ audio_segments' = <<>>
    /\ last' = [op |-> "DropFile"]
    /\ ops' = ops + 1
    /\ total_duration' = IF kind = "video_fail" THEN total_duration ELSE MediaDuration
    /\ UNCHANGED <<srt_path, recognition_mode, manual_segment, manual_start_time,
                   manual_end_time, can_resume, missing_segments, completed_segments,
                   subtitles, progress_receiver, crashed, queue, workers, fragments,
                   manual_srt, global_srt, ws_file, pureVars>>

\* add_cut_point at the current playback position.
AddCutPoint(p) ==
    /\ Foreground
    /\ state # "Idle"
    /\ cut_points' = IF p \in Range(cut_points) THEN cut_points
                     ELSE LET pushed == Append(cut_points, p)
                              sorted == SortKeyed([i \in 1..Len(pushed) |-> <<pushed[i], pushed[i]>>])
                          IN [i \in 1..Len(pushed) |-> sorted[i][2]]
    /\ last' = [op |-> "AddCutPoint"]
    /\ ops' = ops + 1
    /\ UNCHANGED <<total_duration, state, video_path, audio_path, srt_path, audio_segments,
                   recognition_mode, manual_segment, manual_start_time,
                   manual_end_time, can_resume, missing_segments, completed_segments,
                   subtitles, progress_receiver, crashed, queue, workers, fragments,
                   manual_srt, global_srt, ws_file, pureVars>>

\* remove_cut_point(index) from the cut point list of the player panel.
RemoveCutPoint(index) ==
    /\ Foreground
    /\ state # "Idle"
    /\ index \in 0..(Len(cut_points) - 1)
    /\ cut_points' = RemoveAt(cut_points, index + 1)
    /\ last' = [op |-> "RemoveCutPoint"]
    /\ ops' = ops + 1
    /\ UNCHANGED <<total_duration, state, video_path, audio_path, srt_path, audio_segments,
                   recognition_mode, manual_segment, manual_start_time,
                   manual_end_time, can_resume, missing_segments, completed_segments,
                   subtitles, progress_receiver, crashed, queue, workers, fragments,
                   manual_srt, global_srt, ws_file, pureVars>>

\* ffmpeg::cut_audio with a non-empty cut point list: one segment per interval.
CutSegments(cps) == [i \in 1..(Len(cps) + 1) |-> i - 1]

\* cut_audio, behind the "execute cut" button of the player panel.
CutAudio(ok) ==
    /\ Foreground
    /\ state # "Idle"
    /\ cut_points # <<>>
    /\ IF audio_path = None
       THEN UNCHANGED <<state, audio_segments>>
       ELSE /\ state' = "AudioExtracted"
            /\ audio_segments' = IF ok THEN CutSegments(cut_points) ELSE audio_segments
    /\ last' = [op |-> "CutAudio"]
    /\ ops' = ops + 1
    /\ UNCHANGED <<total_duration, video_path, audio_path, srt_path, cut_points,
                   recognition_mode, manual_segment, manual_start_time,
                   manual_end_time, can_resume, missing_segments, completed_segments,
                   subtitles, progress_receiver, crashed, queue, workers, fragments,
                   manual_srt, global_srt, ws_file, pureVars>>

\* The recognition mode radio buttons of the settings panel.
SetMode(mode) ==
    /\ Foreground
    /\ mode # recognition_mode
    /\ recognition_mode' = mode
    /\ last' = [op |-> "SetMode"]
    /\ ops' = ops + 1
    /\ UNCHANGED <<total_duration, state, video_path, audio_path, srt_path, cut_points, audio_segments,
                   manual_segment, manual_start_time,
                   manual_end_time, can_resume, missing_segments, completed_segments,
                   subtitles, progress_receiver, crashed, queue, workers, fragments,
                   manual_srt, global_srt, ws_file, pureVars>>

\* start_recognition behind the start button: start_normal_recognition or
\* start_vad_recognition; the unwrap of a None path panics.
StartRecognition ==
    /\ Foreground
    /\ audio_segments # <<>>
    /\ state # "Processing"
    /\ Len(workers) < MaxRuns
    /\ state' = "Processing"
    /\ LET needed == IF recognition_mode = "Normal" THEN video_path ELSE audio_path
           run == Len(workers) + 1
       IN IF needed = None
          THEN /\ crashed' = TRUE
               /\ UNCHANGED <<progress_receiver, queue, workers>>
          ELSE /\ crashed' = crashed
               /\ progress_receiver' = run
               /\ queue' = <<>>
               /\ workers' = NewWorker(
                     [IdleWorker EXCEPT
                        !.kind = IF recognition_mode = "Normal" THEN "full" ELSE "vad",
                        !.pc = "running",
                        !.segments = audio_segments,
                        !.all_segments = audio_segments,
                        !.cut_points = cut_points,
                        !.video_path = needed])
    /\ last' = [op |-> "StartRecognition"]
    /\ ops' = ops + 1
    /\ UNCHANGED <<total_duration, video_path, audio_path, srt_path, cut_points, audio_segments,
                   recognition_mode, manual_segment, manual_start_time,
                   manual_end_time, can_resume, missing_segments, completed_segments,
                   subtitles, fragments, manual_srt, global_srt, ws_file, pureVars>>

\* Typing into one of the two time fields of the manual panel.
EditManual(field, v) ==
    /\ Foreground
    /\ state \notin {"Idle", "Processing"}
    /\ \/ field = "start" /\ v # manual_start_time
          /\ manual_start_time' = v /\ UNCHANGED manual_end_time
       \/ field = "end" /\ v # manual_end_time
          /\ manual_end_time' = v /\ UNCHANGED manual_start_time
    /\ last' = [op |-> "EditManual"]
    /\ ops' = ops + 1
    /\ UNCHANGED <<total_duration, state, video_path, audio_path, srt_path, cut_points, audio_segments,
                   recognition_mode, manual_segment, can_resume, missing_segments,
                   completed_segments, subtitles, progress_receiver, crashed, queue,
                   workers, fragments, manual_srt, global_srt, ws_file, pureVars>>

\* manual_cut::cut_audio_segment: Err before anything is run when start_time
\* >= end_time; otherwise ffmpeg is run, and the path of the segment is
\* returned when it succeeds.
cut_audio_segment_guard_gt(start_time, end_time, ffmpeg_ok) ==
    IF start_time > end_time
    THEN [ok |-> FALSE, ffmpeg |-> FALSE, path |-> NoSegment]
    ELSE [ok |-> ffmpeg_ok, ffmpeg |-> TRUE,
          path |-> IF ffmpeg_ok THEN <<start_time, end_time>> ELSE NoSegment]

cut_audio_segment(start_time, end_time, ffmpeg_ok) ==
    IF start_time >= end_time
    THEN [ok |-> FALSE, ffmpeg |-> FALSE, path |-> NoSegment]
    ELSE [ok |-> ffmpeg_ok, ffmpeg |-> TRUE,
          path |-> IF ffmpeg_ok THEN <<start_time, end_time>> ELSE NoSegment]

\* cut_manual_segment: nothing without an audio file; a field that does not
\* parse sets the status message and returns; otherwise cut_audio_segment
\* decides.  The status message (only displayed) and whether ffmpeg was run
\* are recorded in last.
CutManualSegment(ffmpeg_ok) ==
    /\ Foreground
    /\ state \notin {"Idle", "Processing"}
    /\ LET start_time == parse_time_string(manual_start_time)
           end_time == parse_time_string(manual_end_time)
           cut == cut_audio_segment(start_time.value, end_time.value, ffmpeg_ok)
       IN IF audio_path = None
          THEN /\ last' = [op |-> "CutManualSegment", ffmpeg |-> FALSE, status_message |-> "unchanged"]
               /\ UNCHANGED manual_segment
          ELSE IF ~start_time.ok
          THEN /\ last' = [op |-> "CutManualSegment", ffmpeg |-> FALSE, status_message |-> "invalid start"]
               /\ UNCHANGED manual_segment
          ELSE IF ~end_time.ok
          THEN /\ last' = [op |-> "CutManualSegment", ffmpeg |-> FALSE, status_message |-> "invalid end"]
               /\ UNCHANGED manual_segment
          ELSE /\ last' = [op |-> "CutManualSegment", ffmpeg |-> cut.ffmpeg,
                           status_message |-> IF cut.ok THEN "cut" ELSE "cut failed"]
               /\ manual_segment' = IF cut.ok THEN cut.path ELSE manual_segment
    /\ ops' = ops + 1
    /\ UNCHANGED <<total_duration, state, video_path, audio_path, srt_path, cut_points, audio_segments,
                   recognition_mode, manual_start_time, manual_end_time, can_resume,
                   missing_segments, completed_segments, subtitles, progress_receiver,
                   crashed, queue, workers, fragments, manual_srt, global_srt, ws_file,
                   pureVars>>

unwrap_or_zero(r) == IF r.ok THEN r.value ELSE 0

\* recognize_manual_segment behind the "recognize" button, or behind the "VAD"
\* button, which switches the mode to VAD for the call and to Normal after it.
RecognizeManual(button) ==
    /\ Foreground
    /\ state \notin {"Idle", "Processing"}
    /\ manual_segment # NoSegment
    /\ Len(workers) < MaxRuns
    /\ state' = "Processing"
    /\ recognition_mode' = IF button = "vad" THEN "Normal" ELSE recognition_mode
    /\ progress_receiver' = Len(workers) + 1
    /\ queue' = <<>>
    /\ workers' = NewWorker(
          [IdleWorker EXCEPT
             !.kind = "manual",
             !.pc = "running",
             !.mode = IF button = "vad" THEN "VAD" ELSE recognition_mode,
             !.start_time = unwrap_or_zero(parse_time_string(manual_start_time)),
             !.end_time = unwrap_or_zero(parse_time_string(manual_end_time)),
             !.subtitles = subtitles])
    /\ last' = [op |-> "RecognizeManual"]
    /\ ops' = ops + 1
    /\ UNCHANGED <<total_duration, video_path, audio_path, srt_path, cut_points, audio_segments,
                   manual_segment, manual_start_time, manual_end_time, can_resume,
                   missing_segments, completed_segments, subtitles, crashed,
                   fragments, manual_srt, global_srt, ws_file, pureVars>>

\* The WorkspaceState that save_workspace builds from the fields in memory.
WorkspaceSnapshot ==
    [exists |-> TRUE,
     video_path |-> video_path, audio_path |-> audio_path,
     cut_points |-> cut_points, audio_segments |-> audio_segments,
     completed_segments |-> ScanFrom(audio_segments, fragments, TRUE, 0),
     manual_segment |-> manual_segment,
     manual_start_time |-> manual_start_time,
     manual_end_time |-> manual_end_time,
     total_duration |-> total_duration]

\* save_workspace into the workspace folder: the file is replaced.
SaveWorkspace ==
    /\ Foreground
    /\ video_path # None
    /\ ws_file' = to_json(WorkspaceSnapshot)
    /\ last' = [op |-> "SaveWorkspace"]
    /\ ops' = ops + 1
    /\ UNCHANGED <<appVars, queue, workers, fragments, manual_srt, global_srt, pureVars>>

\* A load that believes the file's completed_segments (what the code does not
\* do).
trusted_completion(ws, frs) ==
    LET completed == ws.completed_segments
        missing == SelectSeq([k \in 1..Len(ws.audio_segments) |-> k - 1],
                             LAMBDA i : i \notin Range(completed))
    IN [missing_segments |-> missing,
        completed_segments |-> completed,
        can_resume |-> missing # <<>> /\ completed # <<>>]

\* The completion state open_workspace ends with: check_missing_subtitles over
\* the loaded segment list; the file's completed_segments is not read.
loaded_completion(ws, frs) == check_missing_subtitles(ws.audio_segments, frs)

\* open_workspace on the workspace folder; the audio file it names may be gone.
OpenWorkspace(audio_exists) ==
    /\ Foreground
    /\ IF ~ws_file.exists
       THEN UNCHANGED <<total_duration, state, video_path, audio_path, cut_points, audio_segments,
                        manual_segment, manual_start_time, manual_end_time,
                        can_resume, missing_segments, completed_segments>>
       ELSE LET loaded == from_json(ws_file)
                scan == loaded_completion(loaded, fragments)
            IN /\ video_path' = loaded.video_path
               /\ total_duration' = loaded.total_duration
               /\ audio_path' = loaded.audio_path
               /\ cut_points' = loaded.cut_points
               /\ audio_segments' = loaded.audio_segments
               /\ manual_segment' = loaded.manual_segment
               /\ manual_start_time' = loaded.manual_start_time
               /\ manual_end_time' = loaded.manual_end_time
               /\ state' = IF loaded.audio_path # None /\ audio_exists
                           THEN "AudioExtracted" ELSE state
               /\ missing_segments' = scan.missing_segments
               /\ completed_segments' = scan.completed_segments
               /\ can_resume' = scan.can_resume
    /\ last' = [op |-> "OpenWorkspace"]
    /\ ops' = ops + 1
    /\ UNCHANGED <<srt_path, recognition_mode, subtitles, progress_receiver, crashed,
                   queue, workers, fragments, manual_srt, global_srt, ws_file, pureVars>>

\* resume_recognition behind the resume button of the toolbar.  The usize
\* subtraction audio_segments.len() - missing_segments.len() panics on
\* underflow in a build with overflow checks and wraps in one without.
ResumeRecognition ==
    /\ Foreground
    /\ can_resume
    /\ state # "Processing"
    /\ Len(workers) < MaxRuns
    /\ IF missing_segments = <<>>
       THEN UNCHANGED <<state, progress_receiver, crashed, queue, workers>>
       ELSE /\ state' = "Processing"
            /\ \E overflow_checks \in BOOLEAN :
                 LET underflow == Len(audio_segments) < Len(missing_segments)
                 IN IF (underflow /\ overflow_checks) \/ video_path = None
                    THEN /\ crashed' = TRUE
                         /\ UNCHANGED <<progress_receiver, queue, workers>>
                    ELSE /\ crashed' = crashed
                         /\ progress_receiver' = Len(workers) + 1
                         /\ queue' = <<>>
                         /\ workers' = NewWorker(
                               [IdleWorker EXCEPT
                                  !.kind = "resume",
                                  !.pc = "running",
                                  !.segments = ResumeSegments(missing_segments, audio_segments),
                                  !.missing_indices = missing_segments,
                                  !.all_segments = audio_segments,
                                  !.cut_points = cut_points,
                                  !.video_path = video_path,
                                  !.completed_count =
                                      Len(audio_segments) - Len(missing_segments),
                                  !.on_disk_completed =
                                      Len(ScanFrom(audio_segments, fragments, TRUE, 0)),
                                  !.on_disk_missing =
                                      ScanFrom(audio_segments, fragments, FALSE, 0)])
    /\ last' = [op |-> "ResumeRecognition", missing |-> missing_segments,
                on_disk |-> ScanFrom(audio_segments, fragments, FALSE, 0)]
    /\ ops' = ops + 1
    /\ UNCHANGED <<total_duration, video_path, audio_path, srt_path, cut_points, audio_segments,
                   recognition_mode, manual_segment, manual_start_time,
                   manual_end_time, can_resume, missing_segments, completed_segments,
                   subtitles, fragments, manual_srt, global_srt, ws_file, pureVars>>

\* stop_recognition behind the stop button shown while Processing: the engine
\* processes are killed (the ASR call in flight fails), the receiver is
\* dropped; the worker thread is left alone.  cancelled records, for
\* observation, the run whose receiver was dropped.
StopRecognition ==
    /\ Foreground
    /\ state = "Processing"
    /\ audio_segments # <<>>
    /\ state' = "AudioExtracted"
    /\ progress_receiver' = 0
    /\ queue' = <<>>
    /\ workers' = IF progress_receiver = 0 THEN workers
                   ELSE [workers EXCEPT ![progress_receiver].cancelled = TRUE]
    /\ last' = [op |-> "StopRecognition"]
    /\ ops' = ops + 1
    /\ UNCHANGED <<total_duration, video_path, audio_path, srt_path, cut_points, audio_segments,
                   recognition_mode, manual_segment, manual_start_time,
                   manual_end_time, can_resume, missing_segments, completed_segments,
                   subtitles, crashed, fragments, manual_srt, global_srt,
                   ws_file, pureVars>>

\* delete_subtitle(index): the entry is removed and the track renumbered.
delete_subtitle(subs, index) ==
    IF index < Len(subs) THEN reindex_subtitles(RemoveAt(subs, index + 1)) ELSE subs

\* The delete button of one row of the subtitle editor.
DeleteSubtitle(index) ==
    /\ Foreground
    /\ index \in 0..(Len(subtitles) - 1)
    /\ subtitles' = delete_subtitle(subtitles, index)
    /\ last' = [op |-> "DeleteSubtitle"]
    /\ ops' = ops + 1
    /\ UNCHANGED <<total_duration, state, video_path, audio_path, srt_path, cut_points, audio_segments,
                   recognition_mode, manual_segment, manual_start_time,
                   manual_end_time, can_resume, missing_segments, completed_segments,
                   progress_receiver, crashed, queue, workers, fragments, manual_srt,
                   global_srt, ws_file, pureVars>>

HasCompleted(msgs) == \E i \in 1..Len(msgs) : msgs[i].type = "Completed"

\* The message drain at the top of update(): every queued message is received;
\* Completed reloads <video>.srt into the track and ends Processing.
Update ==
    /\ ~crashed
    /\ progress_receiver # 0
    /\ queue # <<>>
    /\ queue' = <<>>
    /\ IF HasCompleted(queue)
       THEN /\ state' = "AudioExtracted"
            /\ progress_receiver' = 0
            /\ IF video_path # None /\ global_srt[video_path].exists
               THEN /\ subtitles' = parse_srt_content(global_srt[video_path].content)
                    /\ srt_path' = video_path
               ELSE UNCHANGED <<subtitles, srt_path>>
       ELSE UNCHANGED <<state, progress_receiver, subtitles, srt_path>>
    /\ last' = [op |-> "Update", run |-> progress_receiver,
                completed |-> HasCompleted(queue)]
    /\ UNCHANGED <<total_duration, video_path, audio_path, cut_points, audio_segments,
                   recognition_mode, manual_segment, manual_start_time,
                   manual_end_time, can_resume, missing_segments, completed_segments,
                   crashed, workers, fragments, manual_srt, global_srt, ws_file, ops,
                   pureVars>>

\* ------------------------------------------------------------ specification
FreshApp ==
    /\ state = "Idle"
    /\ video_path = None
    /\ audio_path = None
    /\ srt_path = None
    /\ cut_points = <<>>
    /\ audio_segments = <<>>
    /\ recognition_mode = "Normal"
    /\ manual_segment = NoSegment
    /\ manual_start_time = Bad
    /\ manual_end_time = Bad
    /\ can_resume = FALSE
    /\ missing_segments = <<>>
    /\ completed_segments = <<>>
    /\ subtitles = <<>>
    /\ progress_receiver = 0
    /\ total_duration = 0
    /\ crashed = FALSE
    /\ queue = <<>>
    /\ workers = <<>>
    /\ manual_srt = NoFile
    /\ last = [op |-> "Init"]
    /\ ops = 0

\* WhisperApp::default over a disk without any <video>.srt.
AppDefaults ==
    /\ FreshApp
    /\ global_srt = [m \in Media |-> NoFile]

\* merge_srt_files not called on its own.
MergeIdle ==
    /\ m_files = <<>>
    /\ m_cut_points = <<>>
    /\ m_result = [status |-> "NotCalled", track |-> <<>>]
    /\ m_output = NoFile
    /\ m_history = <<>>

\* The track operations not called on their own.
CallIdle ==
    /\ p_in = <<>>
    /\ p_out = <<>>
    /\ p_op = "none"

TrackIdle ==
    /\ t_track = <<>>
    /\ t_last = [op |-> "Init", a |-> 0, b |-> 0, before |-> <<>>]
    /\ t_steps = 0

\* The application right after construction, over a disk that holds nothing or
\* the workspace and fragments of an earlier session.
Init ==
    /\ AppDefaults
    /\ \/ /\ ws_file = NoWorkspace
          /\ fragments = [p \in SegmentPaths |-> NoFile]
       \/ \E v \in Media \cup {None}, cps \in PreviousCutPoints,
             present \in PreviousFragmentSets :
            /\ ws_file = PreviousWorkspace(v, cps)
            /\ fragments = PreviousFragments(present)
    /\ MergeIdle
    /\ TrackIdle
    /\ CallIdle

Next ==
    \/ \E kind \in {"audio", "video_fail"} : DropFile(kind)
    \/ \E p \in Positions : AddCutPoint(p)
    \/ \E index \in 0..(Cardinality(Positions) - 1) : RemoveCutPoint(index)
    \/ \E ok \in BOOLEAN : CutAudio(ok)
    \/ \E mode \in {"Normal", "VAD"} : SetMode(mode)
    \/ StartRecognition
    \/ \E v \in ManualStarts : EditManual("start", v)
    \/ \E v \in ManualEnds : EditManual("end", v)
    \/ \E ffmpeg_ok \in BOOLEAN : CutManualSegment(ffmpeg_ok)
    \/ \E button \in {"recognize", "vad"} : RecognizeManual(button)
    \/ SaveWorkspace
    \/ \E audio_exists \in BOOLEAN : OpenWorkspace(audio_exists)
    \/ ResumeRecognition
    \/ StopRecognition
    \/ \E index \in 0..3 : DeleteSubtitle(index)
    \/ Update
    \/ \E w \in 1..MaxRuns : WorkerRecognize(w)
    \/ \E w \in 1..MaxRuns : WorkerFinish(w)
    \/ \E w \in 1..MaxRuns : WorkerVad(w)
    \/ \E w \in 1..MaxRuns : WorkerManual(w)

Spec == Init /\ [][Next]_vars

\* ------------------------------------------- merge_srt_files called on its own
\* The shapes a fragment handed to merge_srt_files can have: no file, one
\* block, one block that starts one millisecond later, two blocks, one block
\* that runs past a cut point at 10 s.
FragmentShapes == {"absent", "one", "late", "two", "long"}

\* The fragment of shape sh at position i of srt_files; its texts name i.
FragmentOfShape(i, sh) ==
    IF sh = "absent" THEN NoFile
    ELSE IF sh = "one" THEN File(<<Block(1, 1000, 2000, <<i, 1>>)>>)
    ELSE IF sh = "late" THEN File(<<Block(1, 1001, 2000, <<i, 1>>)>>)
    ELSE IF sh = "long" THEN File(<<Block(1, 9000, 12000, <<i, 1>>)>>)
    ELSE File(<<Block(1, 1000, 2000, <<i, 1>>), Block(2, 3000, 4000, <<i, 2>>)>>)

\* The cut point lists handed to merge_srt_files.
MergeCutPoints == {<<>>, <<10000>>, <<10000, 25000>>}

\* What output_path holds before the first call: nothing, or an earlier track.
PreviousOutputs == {NoFile, File(<<Block(1, 0, 500, <<-3, 1>>)>>)}

\* How the write at the end of merge_srt_files can go: File::create fails, or
\* it succeeds (the file is truncated) and the writeln! calls get through
\* `written` entries before one fails, or through all of them.
IoOutcomes(entries) ==
    {[create |-> FALSE, written |-> 0]}
        \cup {[create |-> TRUE, written |-> k] : k \in 0..Len(entries)}

IoComplete(entries, io) == io.create /\ io.written = Len(entries)

\* An output opened for appending (what the code does not do).
append_output(previous, entries, io) ==
    File(previous.content \o entries)

\* The file at output_path after File::create and the writeln! loop.
write_output(previous, entries, io) ==
    IF io.create THEN File(SubSeq(entries, 1, io.written)) ELSE previous

InitMerge ==
    /\ AppDefaults
    /\ ws_file = NoWorkspace
    /\ fragments = [p \in SegmentPaths |-> NoFile]
    /\ \E n \in 1..MaxFiles : \E shapes \in [1..n -> FragmentShapes] :
          m_files = [i \in 1..n |-> FragmentOfShape(i, shapes[i])]
    /\ m_cut_points \in MergeCutPoints
    /\ m_result = [status |-> "NotCalled", track |-> <<>>]
    /\ m_output \in PreviousOutputs
    /\ m_history = <<>>
    /\ TrackIdle
    /\ CallIdle

\* One call merge_srt_files(srt_files, cut_points, output_path): the entries are
\* collected, sorted and renumbered, then written.  m_result is the call's
\* result ("IoErr" when the write failed); m_history keeps, per call, the
\* result and the file at output_path before and after.
MergeCall ==
    /\ Len(m_history) < MaxMergeCalls
    /\ LET res == merge_srt_files(m_files, m_cut_points)
       IN IF res.status = "Ok"
          THEN \E io \in IoOutcomes(res.track) :
                 /\ m_output' = write_output(m_output, res.track, io)
                 /\ m_result' = IF IoComplete(res.track, io) THEN res
                                ELSE [status |-> "IoErr", track |-> <<>>]
          ELSE /\ m_output' = m_output
               /\ m_result' = res
    /\ m_history' = Append(m_history,
          [status |-> m_result'.status, before |-> m_output, output |-> m_output'])
    /\ UNCHANGED <<sessionVars, m_files, m_cut_points, trackVars, callVars>>

NextMerge == MergeCall

SpecMerge == InitMerge /\ [][NextMerge]_vars

\* ------------------------------------- the track operations called on their own
\* Entries a subtitle file can hold: three intervals, two of them overlapping,
\* under index values that need not match the position.
EntryPool ==
    {[index |-> ix, start_time |-> iv[1], end_time |-> iv[2], text |-> <<0, iv[3]>>] :
        ix \in {1, 2, 7}, iv \in {<<0, 2000, 1>>, <<2000, 4000, 2>>, <<3000, 5000, 3>>}}

\* The tracks open_subtitle_file can load: what the file holds, in file order.
LoadedTracks == UNION {[1..n -> EntryPool] : n \in 0..MaxTrackLen}

\* Windows [a, b) handed to remove_subtitles_in_range (one of them empty).
Windows == {<<1000, 3000>>, <<2000, 4000>>, <<3000, 1000>>}

\* Freshly recognized entries: one inside the window 1-3 s, one that runs past
\* its end.
NewEntry(k) ==
    IF k = 1 THEN [index |-> 1, start_time |-> 1000, end_time |-> 2000, text |-> <<-1, 1>>]
    ELSE [index |-> 2, start_time |-> 2500, end_time |-> 3500, text |-> <<-1, 2>>]

NewEntryLists == {<<NewEntry(1)>>, <<NewEntry(2)>>, <<NewEntry(2), NewEntry(1)>>}

InitTrack ==
    /\ AppDefaults
    /\ ws_file = NoWorkspace
    /\ fragments = [p \in SegmentPaths |-> NoFile]
    /\ MergeIdle
    /\ t_track \in LoadedTracks
    /\ t_last = [op |-> "Init", a |-> 0, b |-> 0, before |-> <<>>]
    /\ t_steps = 0
    /\ CallIdle

TrackStep(op, a, b) ==
    /\ t_steps < MaxTrackOps
    /\ t_steps' = t_steps + 1
    /\ t_last' = [op |-> op, a |-> a, b |-> b, before |-> t_track]
    /\ UNCHANGED <<sessionVars, mergeVars, callVars>>

TrackRemove(w) ==
    /\ t_track' = remove_subtitles_in_range(t_track, w[1], w[2])
    /\ TrackStep("remove", w[1], w[2])

TrackInsert(k) ==
    /\ t_track' = insert_subtitle(t_track, NewEntry(k))
    /\ TrackStep("insert", 0, 0)

TrackInsertMany(new_subs) ==
    /\ t_track' = insert_subtitles(t_track, new_subs)
    /\ TrackStep("insert_many", 0, 0)

TrackDelete(index) ==
    /\ index < Len(t_track)
    /\ t_track' = delete_subtitle(t_track, index)
    /\ TrackStep("delete", index, 0)

\* The new entries as recognize_segment_with_vad returns them: shifted by the
\* window's start, so none starts before it; nothing bounds their end.
TrackReconcile(w, new_subs) ==
    /\ w[1] < w[2]
    /\ \A k \in 1..Len(new_subs) : new_subs[k].start_time >= w[1]
    /\ t_track' = reconcile(t_track, w[1], w[2], new_subs)
    /\ TrackStep("reconcile", w[1], w[2])

NextTrack ==
    \/ \E w \in Windows : TrackRemove(w)
    \/ \E k \in {1, 2} : TrackInsert(k)
    \/ \E new_subs \in NewEntryLists : TrackInsertMany(new_subs)
    \/ \E index \in 0..(MaxTrackLen + MaxTrackOps) : TrackDelete(index)
    \/ \E w \in Windows, new_subs \in NewEntryLists : TrackReconcile(w, new_subs)

SpecTrack == InitTrack /\ [][NextTrack]_vars

\* ------------------------------------------------------------------- claims

\* C1: when a batch run (full or resume) ends with some segments still lacking
\* a fragment, every entry of the merged track that came from segment i's
\* fragment is shifted by segment i's own offset (0 for i = 0, cut_points[i-1]
\* otherwise), not by the offset of the fragment's position among the
\* fragments that exist.
C1_OwnOffset ==
    (last.op = "Finish" /\ last.merge = "Ok"
        /\ Len(last.srt_files) < Len(workers[last.run].all_segments)
        /\ Len(workers[last.run].all_segments) = Len(workers[last.run].cut_points) + 1)
    => LET wk == workers[last.run]
           track == global_srt[wk.video_path].content
       IN \A i \in 1..Len(wk.all_segments) :
             Exists(fragments, wk.all_segments[i]) =>
                \A f \in Range(fragments[wk.all_segments[i]].content) :
                   \E e \in Range(track) :
                      /\ e.text = f.text
                      /\ ParseSrtTime(e.start_time) =
                            ParseSrtTime(f.start_time) + segment_start_times(wk.cut_points)[i]
                      /\ ParseSrtTime(e.end_time) =
                            ParseSrtTime(f.end_time) + segment_start_times(wk.cut_points)[i]

\* C2: a resume hands to the ASR engine only segments whose fragment file does
\* not exist at dispatch time; a segment whose fragment already exists is never
\* recognized again or overwritten by a resume.
C2_ResumeOnlyMissing ==
    (last.op = "Recognize" /\ last.kind = "resume") => ~last.existed

\* C3: every recognition run that has ended has sent exactly one Completed
\* message, as its last message, whatever the ASR calls and the merge did and
\* whatever cut point list and segment list it was started with.
C3_CompletedSent ==
    \A w \in 1..Len(workers) :
        ~Running(w) =>
            /\ workers[w].log # <<>>
            /\ workers[w].log[Len(workers[w].log)] = Completed
            /\ Cardinality({i \in 1..Len(workers[w].log) : workers[w].log[i] = Completed}) = 1

\* C4: at most one recognition worker is active at any time, for every
\* interleaving of foreground actions with a running worker.
C4_OneWorker ==
    Cardinality({w \in 1..Len(workers) : Running(w)}) <= 1

\* C5: once the Completed message of a manual-window run that produced entries
\* has been handled, the foreground's track contains the new entries and no
\* other entry whose interval intersects [windowStart, windowEnd).
C5_ManualReconciled ==
    (last.op = "Update" /\ last.completed /\ last.run # 0
        /\ workers[last.run].kind = "manual" /\ workers[last.run].new_subs # <<>>)
    => LET wk == workers[last.run]
           fresh == {[start_time |-> n.start_time, end_time |-> n.end_time, text |-> n.text] :
                        n \in Range(wk.new_subs)}
           shown == {[start_time |-> e.start_time, end_time |-> e.end_time, text |-> e.text] :
                        e \in Range(subtitles)}
       IN /\ fresh \subseteq shown
          /\ \A e \in shown \ fresh : RetainOutside(e, wk.start_time, wk.end_time)

\* C6: in manual-window recognition, in Normal mode as in VAD mode, every entry
\* handed to insert_subtitles has start and end equal to its fragment-local
\* time plus windowStart.
C6_ManualShifted ==
    \A w \in 1..Len(workers) :
        (workers[w].kind = "manual" /\ ~Running(w)) =>
            /\ Len(workers[w].new_subs) = Len(workers[w].raw_subs)
            /\ \A k \in 1..Len(workers[w].new_subs) :
                  /\ workers[w].new_subs[k].start_time =
                        workers[w].raw_subs[k].start_time + workers[w].start_time
                  /\ workers[w].new_subs[k].end_time =
                        workers[w].raw_subs[k].end_time + workers[w].start_time

\* C7: after a resume in which every missing segment was recognized, followed
\* by the merge, the merged track holds each entry of each of the N segments'
\* fragments exactly once.
C7_ResumeMergesAll ==
    (last.op = "Finish" /\ last.kind = "resume"
        /\ workers[last.run].segments # <<>>
        /\ (\A i \in 1..Len(workers[last.run].log) : workers[last.run].log[i].type # "Error")
        /\ \A p \in Range(workers[last.run].all_segments) : Exists(fragments, p))
    => LET wk == workers[last.run]
           merged == global_srt[wk.video_path]
       IN /\ merged.exists
          /\ \A p \in Range(wk.all_segments) : \A f \in Range(fragments[p].content) :
                Cardinality({k \in 1..Len(merged.content) : merged.content[k].text = f.text}) = 1
          /\ Len(merged.content) =
                Len(Flatten([i \in 1..Len(wk.all_segments) |->
                                fragments[wk.all_segments[i]].content]))

\* C8: after a run was cancelled, a resume recognizes exactly the segments that
\* have no fragment file on disk at that moment.
C8_ResumeAfterCancel ==
    (last.op = "ResumeRecognition" /\ ~crashed /\ last.missing # <<>>
        /\ \E w \in 1..Len(workers) : workers[w].cancelled)
    => workers[Len(workers)].missing_indices = last.on_disk

\* C9: no foreground operation aborts the foreground thread, in any reachable
\* state.
C9_NoAbort == ~crashed

\* C10: for N fragments that are all present and offsets [0, c1, ..., c(N-1)],
\* merge_srt_files outputs for each entry (s, e) of fragment i one entry with
\* times (s + offset_i, e + offset_i); the output is sorted ascending by start
\* and its indices are 1..M.
C10_MergeShifts ==
    (m_result.status \notin {"NotCalled", "IoErr"}
        /\ (\A i \in 1..Len(m_files) : m_files[i].exists)
        /\ Len(m_files) <= Len(m_cut_points) + 1)
    => LET track == m_result.track
       IN /\ m_result.status = "Ok"
          /\ \A i \in 1..Len(m_files) : \A f \in Range(m_files[i].content) :
                Cardinality({k \in 1..Len(track) :
                    /\ track[k].text = f.text
                    /\ track[k].start_time =
                          Stamp(ParseSrtTime(f.start_time) + segment_start_times(m_cut_points)[i])
                    /\ track[k].end_time =
                          Stamp(ParseSrtTime(f.end_time) + segment_start_times(m_cut_points)[i])}) = 1
          /\ Len(track) = Len(Flatten([i \in 1..Len(m_files) |-> m_files[i].content]))
          /\ \A k \in 1..Len(track) : track[k].index = k
          /\ \A k \in 1..(Len(track) - 1) :
                ParseSrtTime(track[k].start_time) <= ParseSrtTime(track[k + 1].start_time)

\* --------------------------------------- the cut point list edited on its own
\* Playback positions of the player: position() is elapsed.min(duration), so
\* the start and the very end of the media are among them.
CutPositions == {0, 5000, 10000, 25000, MediaDuration}

NextCut ==
    \/ DropFile("audio")
    \/ \E audio_exists \in BOOLEAN : OpenWorkspace(audio_exists)
    \/ \E ok \in BOOLEAN : CutAudio(ok)
    \/ \E p \in CutPositions : AddCutPoint(p)
    \/ \E index \in 0..(Cardinality(CutPositions) - 1) : RemoveCutPoint(index)

SpecCut == Init /\ [][NextCut]_vars

\* ------------------------------- manual recognition over an earlier track
\* The application started in a folder where an earlier session may have
\* left its merged track <video>.srt as well.
InitEditor ==
    /\ FreshApp
    /\ global_srt \in [Media -> PreviousOutputs]
    /\ \E v \in Media \cup {None}, cps \in PreviousCutPoints, present \in PreviousFragmentSets :
          /\ ws_file = PreviousWorkspace(v, cps)
          /\ fragments = PreviousFragments(present)
    /\ MergeIdle
    /\ TrackIdle
    /\ CallIdle

NextEditor ==
    \/ \E audio_exists \in BOOLEAN : OpenWorkspace(audio_exists)
    \/ \E v \in ManualStarts : EditManual("start", v)
    \/ \E v \in ManualEnds : EditManual("end", v)
    \/ \E ffmpeg_ok \in BOOLEAN : CutManualSegment(ffmpeg_ok)
    \/ \E button \in {"recognize", "vad"} : RecognizeManual(button)
    \/ \E w \in 1..MaxRuns : WorkerManual(w)
    \/ Update
    \/ \E index \in 0..1 : DeleteSubtitle(index)

SpecEditor == InitEditor /\ [][NextEditor]_vars

\* ------------------------------------------- the manual panel on its own
\* What can be typed into either time field: no number, "10", "14", "0:10"
\* and "-5".
ManualTexts == {Bad, <<Num(10000)>>, <<Num(14000)>>, <<Num(0), Num(10000)>>, <<Num(-5000)>>}

NextManual ==
    \/ DropFile("audio")
    \/ \E audio_exists \in BOOLEAN : OpenWorkspace(audio_exists)
    \/ \E v \in ManualTexts : EditManual("start", v)
    \/ \E v \in ManualTexts : EditManual("end", v)
    \/ \E ffmpeg_ok \in BOOLEAN : CutManualSegment(ffmpeg_ok)

SpecManual == Init /\ [][NextManual]_vars

\* ------------------------------------------------- the time codec, called
\* on its own: format_srt_time and parse_srt_time of subtitle.rs, and
\* parse_time_string of manual_cut.rs.
\* The timestamp texts handed to parse_srt_time: three to five components,
\* each the number 5 or no number, with any separators between them.
TimeTexts ==
    UNION {{TimeText(parts, seps) : parts \in [1..n -> {Num(5), Word}],
                                    seps \in [1..(n - 1) -> {":", ","}]} : n \in 3..5}

\* The time strings handed to parse_time_string: one to four components; the
\* leading ones 0, 1, -5 or no number, the last one also with a fraction.
LeadingParts == {Num(0), Num(1000), Num(-5000), Word}

SecondsParts == LeadingParts \cup {Num(1029), Num(30000), Num(61029), Num(90000)}

TimeStrings ==
    {<<sec>> : sec \in SecondsParts}
    \cup {<<min, sec>> : min \in LeadingParts, sec \in SecondsParts}
    \cup {<<hour, min, sec>> : hour \in LeadingParts, min \in LeadingParts, sec \in SecondsParts}
    \cup {<<Num(0), Num(0), sec, Num(0)>> : sec \in SecondsParts}

\* The SRT texts handed to the parsers: up to MaxBlocks pieces, each a
\* well-formed block, an index line with no time line after it (on its own,
\* or followed by a second index line and a text), a block with a timestamp
\* that does not parse, or a block that ends where or before it starts.
MaxBlocks == 2

NoTime == TimeText(<<Num(0), Num(0), Word, Num(0)>>, <<":", ":", ",">>)

SrtPieces ==
    {<<IndexLine(1), TimeLine(format_srt_time(1000), format_srt_time(2000)), TextLine(1), BlankLine>>,
     <<IndexLine(2), TimeLine(format_srt_time(3000), format_srt_time(4000)), TextLine(2)>>,
     <<IndexLine(7)>>,
     <<IndexLine(7), IndexLine(8), TextLine(3), BlankLine>>,
     <<IndexLine(3), TimeLine(NoTime, format_srt_time(2000)), TextLine(4), BlankLine>>,
     <<IndexLine(4), TimeLine(format_srt_time(1000), NoTime), TextLine(5), BlankLine>>,
     <<IndexLine(5), TimeLine(format_srt_time(2000), format_srt_time(1000)), TextLine(6), BlankLine>>,
     <<IndexLine(6), TimeLine(format_srt_time(1000), format_srt_time(1000)), TextLine(7), BlankLine>>}

SrtTexts == {Flatten(pieces) : pieces \in UNION {[1..n -> SrtPieces] : n \in 1..MaxBlocks}}

InitCodec ==
    /\ AppDefaults
    /\ ws_file = NoWorkspace
    /\ fragments = [p \in SegmentPaths |-> NoFile]
    /\ MergeIdle
    /\ TrackIdle
    /\ CallIdle

CodecCall(op) ==
    /\ p_op' = op
    /\ UNCHANGED <<sessionVars, mergeVars, trackVars>>

FormatCall(t) ==
    /\ p_op = "none"
    /\ p_in' = t
    /\ p_out' = format_srt_time(t)
    /\ CodecCall("format_srt_time")

\* parse_srt_time applied to the text format_srt_time returned.
ParseFormatted ==
    /\ p_op = "format_srt_time"
    /\ p_in' = p_in
    /\ p_out' = parse_srt_time(p_out)
    /\ CodecCall("round_trip")

ParseCall(time_str) ==
    /\ p_op = "none"
    /\ p_in' = time_str
    /\ p_out' = parse_srt_time(time_str)
    /\ CodecCall("parse_srt_time")

TimeStringCall(time_str) ==
    /\ p_op = "none"
    /\ p_in' = time_str
    /\ p_out' = parse_time_string(time_str)
    /\ CodecCall("parse_time_string")

ParseContentCall(lines) ==
    /\ p_op = "none"
    /\ p_in' = lines
    /\ p_out' = parse_srt_lines(lines, 1, <<>>)
    /\ CodecCall("parse_srt_content")

MergerReadCall(lines) ==
    /\ p_op = "none"
    /\ p_in' = lines
    /\ p_out' = merger_read_entries(lines)
    /\ CodecCall("merge_srt_files")

NextCodec ==
    \/ \E lines \in SrtTexts : ParseContentCall(lines)
    \/ \E lines \in SrtTexts : MergerReadCall(lines)
    \/ \E time_str \in TimeStrings : TimeStringCall(time_str)
    \/ \E t \in CodecTimes : FormatCall(t)
    \/ ParseFormatted
    \/ \E time_str \in TimeTexts : ParseCall(time_str)

SpecCodec == InitCodec /\ [][NextCodec]_vars

\* Consecutive entries of a track do not overlap.
NoOverlap(track) ==
    \A k \in 1..(Len(track) - 1) :
        ParseSrtTime(track[k].end_time) <= ParseSrtTime(track[k + 1].start_time)

NoOverlapMillis(track) ==
    \A k \in 1..(Len(track) - 1) : track[k].end_time <= track[k + 1].start_time

\* C11: after merge_srt_files completes, and after a manual reconciliation
\* (remove_subtitles_in_range followed by insert_subtitles) of a track that had
\* no overlap completes, no two consecutive entries of the resulting track
\* overlap, also when an entry runs past its segment's end or past the window.
C11_NoOverlapAfterMerge ==
    /\ m_result.status = "Ok" => NoOverlap(m_result.track)
    /\ (t_last.op = "reconcile" /\ NoOverlapMillis(t_last.before))
          => NoOverlapMillis(t_track)

\* C12: for every track, also one loaded from a file with arbitrary index
\* values, after each call of remove_subtitles_in_range, insert_subtitle,
\* insert_subtitles or delete_subtitle the entry at 0-based position i has
\* index i + 1 (position k counted from 1 has index k).
C12_IndexIsPosition ==
    t_last.op \in {"remove", "insert", "insert_many", "delete"}
    => \A k \in 1..Len(t_track) : t_track[k].index = k

\* C13: after remove_subtitles_in_range(track, a, b) no remaining entry has
\* start < b and end > a.
C13_WindowCleared ==
    t_last.op = "remove"
    => \A k \in 1..Len(t_track) :
          ~(t_track[k].start_time < t_last.b /\ t_track[k].end_time > t_last.a)

\* A removal that took an entry reaching into the window from before its start
\* and kept another one.
C13_Witness ==
    /\ t_last.op = "remove"
    /\ t_track # <<>>
    /\ \E k \in 1..Len(t_last.before) :
          /\ t_last.before[k].start_time < t_last.a
          /\ t_last.before[k].end_time > t_last.a
          /\ t_last.before[k] \notin Range(t_track)

\* C14: running merge_srt_files twice with the same fragment contents, the
\* same cut points and the same output path produces identical output content
\* both times (any two calls that return Ok leave the same file).
C14_MergeTwiceSame ==
    \A i, j \in 1..Len(m_history) :
        (m_history[i].status = "Ok" /\ m_history[j].status = "Ok")
        => m_history[i].output = m_history[j].output

\* Two successful merges over an output path that held an earlier track, each
\* writing at least one entry.
C14_Witness ==
    /\ Len(m_history) = 2
    /\ m_history[1].status = "Ok"
    /\ m_history[2].status = "Ok"
    /\ m_history[1].before.exists
    /\ m_history[1].before.content # <<>>
    /\ m_history[2].output.content # <<>>

\* C15: if merge_srt_files returns an error, the output path holds what it
\* held before the call; a failed merge never leaves a partially written file.
C15_FailedMergeKeepsOutput ==
    \A i \in 1..Len(m_history) :
        m_history[i].status \in {"Err", "IoErr"}
        => m_history[i].output = m_history[i].before

\* The Result and Error messages of the loop iterations of a batch run, in the
\* order sent (the a field is the 1-based segment number).
Attempts(wk) == SelectSeq(wk.log, LAMBDA m : m.type \in {"Result", "Error"} /\ m.a > 0)

\* The 0-based indices of the segments a batch run was started on.
Batch(wk) ==
    IF wk.kind = "full" THEN [k \in 1..Len(wk.segments) |-> k - 1]
    ELSE SelectSeq(wk.missing_indices, LAMBDA i : i < Len(wk.all_segments))

\* C16: in a batch run every iteration sends one Result or one Error for its
\* segment, a failed ASR call sends the Error and the loop goes on: the
\* segments attempted so far are the first ones of the batch (all segments
\* for a full run; for a resume a list that holds every segment missing on
\* disk), each once, in ascending index order, and a run that reached its end
\* has attempted the whole batch.
C16_BatchContinues ==
    /\ \A w \in 1..Len(workers) :
          workers[w].kind \in {"full", "resume"}
          => LET wk == workers[w]
                 attempts == Attempts(wk)
                 batch == Batch(wk)
             IN /\ Len(attempts) = wk.idx
                /\ wk.idx <= Len(batch)
                /\ \A k \in 1..wk.idx : attempts[k].a = batch[k] + 1
                /\ \A k \in 1..(Len(batch) - 1) : batch[k] < batch[k + 1]
                /\ wk.kind = "resume"
                      => \A i \in Range(wk.on_disk_missing) : i \in Range(batch)
                /\ wk.pc # "running" => wk.idx = Len(batch)
    /\ (last.op = "Recognize" /\ ~last.ok)
          => LET log == workers[last.run].log
             IN /\ log # <<>>
                /\ log[Len(log)] = Msg("Error", last.segment_index + 1, 0)

IsAscending(q) == \A k \in 1..(Len(q) - 1) : q[k] < q[k + 1]

\* C17: after check_missing_subtitles over n audio segments, completed_segments
\* and missing_segments are disjoint, each ascending, their union is 0..n-1,
\* index i is completed exactly when segment i's companion subtitle file
\* exists, and can_resume is true exactly when both lists are non-empty.
C17_ScanPartition ==
    (last.op = "OpenWorkspace" /\ ws_file.exists)
    => LET n == Len(audio_segments)
       IN /\ Range(completed_segments) \cap Range(missing_segments) = {}
          /\ IsAscending(completed_segments)
          /\ IsAscending(missing_segments)
          /\ Range(completed_segments) \cup Range(missing_segments) = 0..(n - 1)
          /\ \A i \in 0..(n - 1) :
                (i \in Range(completed_segments)) <=> Exists(fragments, audio_segments[i + 1])
          /\ can_resume <=> (missing_segments # <<>> /\ completed_segments # <<>>)

\* A load that found some fragments present and some missing.
C17_Witness ==
    /\ last.op = "OpenWorkspace"
    /\ ws_file.exists
    /\ can_resume
    /\ Len(missing_segments) >= 1
    /\ Len(completed_segments) >= 1
    /\ Len(audio_segments) = 3

\* The Progress messages a run has sent, each with the number k of loop
\* iterations begun when it was sent: <<k, current, total>>.
ProgressReports(wk) ==
    LET at == SelectSeq([j \in 1..Len(wk.log) |-> j], LAMBDA j : wk.log[j].type = "Progress")
    IN [r \in 1..Len(at) |->
          <<Len(Attempts([wk EXCEPT !.log = SubSeq(wk.log, 1, at[r])])),
            wk.log[at[r]].a, wk.log[at[r]].b>>]

\* C18: in a resume run with c segments already completed on disk out of n,
\* the progress reported for the k-th segment of the batch is (c + k) / n; the
\* reported values never decrease, are never below c / n and never exceed 1.
C18_ResumeProgress ==
    \A w \in 1..Len(workers) :
        workers[w].kind = "resume"
        => LET wk == workers[w]
               c == wk.on_disk_completed
               n == Len(wk.all_segments)
               reports == ProgressReports(wk)
           IN /\ \A r \in 1..Len(reports) :
                    /\ reports[r][3] = n
                    /\ reports[r][2] = c + reports[r][1]
                    /\ reports[r][2] >= c
                    /\ reports[r][2] <= n
              /\ \A r \in 1..(Len(reports) - 1) : reports[r][2] <= reports[r + 1][2]

\* Lists a workspace file can carry as completed_segments.
PersistedLists == {<<>>, <<0>>, <<1, 2>>, <<0, 1, 2>>}

\* C19: loading a workspace never trusts the persisted completed-segment list:
\* the workspace file and any file that differs from it only in
\* completed_segments, loaded against the same filesystem, give the same
\* completed_segments, missing_segments and can_resume, and these follow the
\* existence of the fragment files alone.
C19_CompletionFromDisk ==
    (last.op = "OpenWorkspace" /\ ws_file.exists)
    => /\ \A persisted \in PersistedLists :
             LET other == [ws_file EXCEPT !.completed_segments = persisted]
                 scan == loaded_completion(from_json(other), fragments)
             IN /\ completed_segments = scan.completed_segments
                /\ missing_segments = scan.missing_segments
                /\ can_resume = scan.can_resume
       /\ \A i \in 0..(Len(audio_segments) - 1) :
             (i \in Range(completed_segments)) <=> Exists(fragments, audio_segments[i + 1])

\* A load of a file whose persisted list names a segment without a fragment
\* and leaves out one that has its fragment.
C19_Witness ==
    /\ last.op = "OpenWorkspace"
    /\ ws_file.exists
    /\ Range(ws_file.completed_segments) \ Range(completed_segments) # {}
    /\ Range(completed_segments) \ Range(ws_file.completed_segments) # {}

C21_CutPointsInside ==
    /\ \A k \in 1..(Len(cut_points) - 1) : cut_points[k] < cut_points[k + 1]
    /\ \A k \in 1..Len(cut_points) : 0 < cut_points[k] /\ cut_points[k] < total_duration

\* C22: whenever a merge is invoked at the end of a run, the number of audio
\* segments of the run equals the length of the cut point list passed to that
\* merge plus one.
C22_SegmentsMatchCuts ==
    (last.op = "Finish" /\ last.merge # "Skipped")
    => LET wk == workers[last.run]
           audio_segments_of_run == IF wk.kind = "full" THEN wk.segments ELSE wk.all_segments
       IN Len(audio_segments_of_run) = Len(wk.cut_points) + 1

\* C23: for every time t that is a whole number of milliseconds in
\* [0, 359999.999] seconds, parse_srt_time(format_srt_time(t)) equals t.
C23_RoundTrip ==
    p_op = "round_trip" => p_out = Ok(p_in)

\* C28: parse_srt_time accepts only strings of the form HH:MM:SS,mmm (two
\* colons, then one comma, four numeric components) and returns an error for
\* every other string, also when the separators come in another order or kind.
C28_StrictTimestamp ==
    (p_op = "parse_srt_time" /\ p_out.ok)
    => /\ Len(p_in.parts) = 4
       /\ \A k \in 1..4 : p_in.parts[k].num
       /\ p_in.seps = <<":", ":", ",">>

\* A time string of one of the forms S, M:S and H:M:S, with non-negative
\* numbers.
IsDuration(time_str) ==
    /\ Len(time_str) \in 1..3
    /\ \A k \in 1..Len(time_str) : time_str[k].num /\ time_str[k].value >= 0

RECURSIVE Denoted(_)
\* The duration it denotes, H*3600 + M*60 + S, in milliseconds.
Denoted(time_str) ==
    IF time_str = <<>> THEN 0
    ELSE Denoted(SubSeq(time_str, 1, Len(time_str) - 1)) * 60 + time_str[Len(time_str)].value

\* C24: parse_time_string maps the forms S, M:S and H:M:S to H*3600 + M*60 + S
\* seconds, missing leading components taken as 0, so every two inputs that
\* denote the same duration in different forms yield the same value.
C24_SameDurationSameValue ==
    (p_op = "parse_time_string" /\ IsDuration(p_in))
    => /\ p_out.ok
       /\ p_out.value = Denoted(p_in)
       /\ \A other \in TimeStrings :
            (IsDuration(other) /\ Denoted(other) = Denoted(p_in))
            => parse_time_string(other) = p_out

\* C25: parse_time_string returns an error for every input that has more than
\* three colon-separated parts or has a component that is not a non-negative
\* number; a negative component is rejected, not turned into a negative time.
C25_RejectsNonDurations ==
    (p_op = "parse_time_string" /\ ~IsDuration(p_in)) => ~p_out.ok

\* The well-formed block of the parser inputs, the two blocks whose index
\* line has no time line after it, the two blocks with a timestamp that does
\* not parse, and the two blocks that do not end after they start.
GoodBlock == <<IndexLine(1), TimeLine(format_srt_time(1000), format_srt_time(2000)), TextLine(1), BlankLine>>

StrayIndexBlocks == {<<IndexLine(7)>>, <<IndexLine(7), IndexLine(8), TextLine(3), BlankLine>>}

BadTimeBlocks ==
    {<<IndexLine(3), TimeLine(NoTime, format_srt_time(2000)), TextLine(4), BlankLine>>,
     <<IndexLine(4), TimeLine(format_srt_time(1000), NoTime), TextLine(5), BlankLine>>}

ParserCalled == p_op \in {"parse_srt_content", "merge_srt_files"}

OnlyGoodBlockReturned ==
    /\ p_out.ok
    /\ Len(p_out.track) = 1
    /\ p_out.track[1].index = 1
    /\ p_out.track[1].start_time = 1000
    /\ p_out.track[1].end_time = 2000

\* C26: parsing SRT text that contains one well-formed block and one block
\* whose index line is immediately followed by another index line (no
\* timestamp line) yields a track with exactly one entry, the well-formed one,
\* and no error, whichever of the two blocks comes first, also when the line
\* after the stray index line is the well-formed block's own index line.
C26_StrayIndexSkipped ==
    (ParserCalled /\ \E stray \in StrayIndexBlocks : p_in \in {GoodBlock \o stray, stray \o GoodBlock})
    => OnlyGoodBlockReturned

\* C27: a block whose timestamp line has the arrow but a start or end
\* timestamp that cannot be parsed is dropped and all other blocks of the
\* file are still returned; the parse of the file, and a merge that reads it,
\* does not fail because of that block.
C27_BadTimestampDropped ==
    (ParserCalled /\ \E bad \in BadTimeBlocks : p_in \in {GoodBlock \o bad, bad \o GoodBlock})
    => OnlyGoodBlockReturned

\* C29: parsing an SRT block whose start time is not strictly less than its
\* end time is a parse error, so no entry with start >= end is ever present
\* in a track returned by the parser.
C29_NoReversedEntry ==
    ParserCalled
    => \A k \in 1..Len(p_out.track) : p_out.track[k].start_time < p_out.track[k].end_time

\* cut_manual_segment is called on fields of which one does not parse, or
\* which parse to a start at or after the end.
CutRefused ==
    LET start_time == parse_time_string(manual_start_time)
        end_time == parse_time_string(manual_end_time)
    IN /\ last'.op = "CutManualSegment"
       /\ ops' = ops + 1
       /\ ~start_time.ok \/ ~end_time.ok \/ start_time.value >= end_time.value

\* C30: cut_manual_segment with a start or end string that does not parse, or
\* with parsed start >= end, invokes no external transcoder and leaves
\* manual_segment and all other session state except the status message
\* unchanged.
C30_RefusedCutChangesNothing ==
    [][CutRefused
       => /\ ~last'.ffmpeg
          /\ last'.status_message \in {"unchanged", "invalid start", "invalid end", "cut failed"}
          /\ UNCHANGED <<appVars, queue, workers, fragments, manual_srt, global_srt, ws_file>>]_vars

\* A cut was refused although both fields parse and an audio file is loaded:
\* the start is not before the end.
C30_Witness ==
    /\ last.op = "CutManualSegment"
    /\ audio_path # None
    /\ parse_time_string(manual_start_time).ok
    /\ parse_time_string(manual_end_time).ok
    /\ parse_time_string(manual_start_time).value >= parse_time_string(manual_end_time).value
    /\ ~last.ffmpeg
    /\ last.status_message = "cut failed"

\* C31: every user- or file-supplied position (a marked cut point, a manual
\* window bound, a cut point read from a workspace file) lies within
\* [0, total_duration] when it is stored or passed to the transcoder.
C31_PositionsInRange ==
    /\ \A k \in 1..Len(cut_points) : 0 <= cut_points[k] /\ cut_points[k] <= total_duration
    /\ (last.op = "CutManualSegment" /\ last.ffmpeg)
       => /\ 0 <= parse_time_string(manual_start_time).value
          /\ parse_time_string(manual_end_time).value <= total_duration

\* Positions of the track before the removal whose entry ends at or before
\* the window's start or starts at or after its end.
OutsideWindow ==
    {k \in 1..Len(t_last.before) :
        t_last.before[k].end_time <= t_last.a \/ t_last.before[k].start_time >= t_last.b}

\* C32: remove_subtitles_in_range(track, a, b) keeps every entry with
\* entry.end <= a or entry.start >= b, unchanged (index, times, text) and in
\* the same relative order as before; only entries intersecting [a, b) are
\* removed.
C32_OutsideEntriesKept ==
    t_last.op = "remove"
    => /\ Len(t_track) = Cardinality(OutsideWindow)
       /\ \A k \in OutsideWindow :
            t_track[Cardinality({j \in OutsideWindow : j <= k})] = t_last.before[k]

\* A removal that took one entry and kept two different ones, one of them
\* under an index that is not its position.
C32_Witness ==
    /\ t_last.op = "remove"
    /\ Len(t_track) >= 2
    /\ Len(t_track) < Len(t_last.before)
    /\ t_track[1] # t_track[2]
    /\ \E k \in 1..Len(t_track) : t_track[k].index # k

\* C33: in every reachable state every index in missing_segments and
\* completed_segments is a valid index into the current audio_segments and
\* the two lists partition its index range; handle_dropped_file and cut_audio
\* leave no resume state, and no can_resume = true, from an earlier scan of
\* another segment list.
C33_ResumeStateCurrent ==
    LET indices == 0..(Len(audio_segments) - 1)
        scanned == can_resume \/ missing_segments # <<>> \/ completed_segments # <<>>
    IN /\ Range(missing_segments) \cup Range(completed_segments) \subseteq indices
       /\ scanned => /\ Range(missing_segments) \cup Range(completed_segments) = indices
                     /\ Range(missing_segments) \cap Range(completed_segments) = {}

\* C34: the window [start, end) that recognize_manual_segment uses to remove
\* and to shift entries is the window with which the current manual_segment
\* audio was cut, whatever edits of the two text fields, cuts and workspace
\* loads lie between the cut and the recognition.
C34_WindowOfTheCut ==
    last.op = "RecognizeManual"
    => <<workers[Len(workers)].start_time, workers[Len(workers)].end_time>> = manual_segment

\* C35: after stop_recognition the stopped run starts no further ASR process:
\* its worker neither proceeds to the remaining segments of its batch nor
\* runs the merge, and writes no further fragment or global track file.
\* (A call that fails after the stop may be the one that was in flight and
\* was killed; a call that succeeds and a merge were started after it.)
C35_StoppedRunStops ==
    (\/ last.op = "Recognize" /\ last.ok
     \/ last.op = "Finish" /\ last.merge # "Skipped")
    => ~workers[last.run].cancelled

\* The foreground handles the Completed message of a manual-window run whose
\* recognition failed or yielded no entries.
EmptyManualRunCompleted ==
    /\ last'.op = "Update"
    /\ last'.completed
    /\ last'.run \in 1..Len(workers)
    /\ workers[last'.run].kind = "manual"
    /\ workers[last'.run].pc = "done"
    /\ workers[last'.run].new_subs = <<>>

\* C36: if a manual-window recognition fails or yields no entries, no existing
\* entry is removed: the track after the run equals the track before it.
C36_EmptyRunKeepsTrack ==
    [][EmptyManualRunCompleted => subtitles' = subtitles]_vars

\* C37: after handle_dropped_file loads a new media file no state derived from
\* the previous media remains: subtitles, srt_path, manual_segment,
\* missing_segments, completed_segments and can_resume are reset together
\* with cut_points and audio_segments.
C37_DropResetsSession ==
    last.op = "DropFile"
    => /\ cut_points = <<>>
       /\ audio_segments = <<>>
       /\ subtitles = <<>>
       /\ srt_path = None
       /\ manual_segment = NoSegment
       /\ missing_segments = <<>>
       /\ completed_segments = <<>>
       /\ ~can_resume

\* C38: for every SRT text, subtitle::parse_srt_content and
\* srt_merger::parse_srt_file yield the same sequence of entries (same count,
\* same timestamps, same text lines), also for text lines that consist only
\* of digits and for blocks with a stray index line.
C38_ParsersAgree ==
    p_op = "parse_srt_content"
    => LET merged == merger_read_entries(p_in)
       IN /\ merged.ok = p_out.ok
          /\ Len(merged.track) = Len(p_out.track)
          /\ \A k \in 1..Len(p_out.track) :
                /\ merged.track[k].start_time = p_out.track[k].start_time
                /\ merged.track[k].end_time = p_out.track[k].end_time
                /\ merged.track[k].text = p_out.track[k].text

====
